---- MODULE Spec2Model ----
(***************************************************************************)
(* Crimson Forge Overseer: the five monitors (uptime, supabase, sentry,    *)
(* railway, email), the two scheduled jobs that run them (the silent       *)
(* health check and the morning briefing) and the Slack notifier.          *)
(*                                                                         *)
(* An optional JavaScript property (error?, details?, actionUrl?, data of  *)
(* a synthesised result) is a record field that is present or not; a       *)
(* nullable value is the empty tuple (null) or a one-element tuple.        *)
(* Timestamps are left out: no decision reads them.                        *)
(***************************************************************************)
EXTENDS Integers, Sequences, FiniteSets, TLC

\* ------------------------------------------------------------------ bounds

\* Longest modelled duration of one ping attempt, in ms (1..MaxLatency).
MaxLatency == 1
\* Most issues the "new in the last 24h" Sentry query returns.
MaxNewIssues == 3
\* Most issues the "is:unresolved" Sentry query returns.
MaxUnresolved == 1
\* Most rows the get_silent_shops RPC returns.
MaxSilentShops == 2
\* Most earlier alerting ticks the record of SpecQuick counts.
MaxAlertedTicks == 2

\* ------------------------------------------------------- program constants

RETRY_DELAY_MS == 5000
RECENT_ISSUES_SHOWN == 5

Null == << >>
Some(x) == << x >>

Min(a, b) == IF a < b THEN a ELSE b

Adapters == {"uptime", "supabase", "sentry", "railway", "email"}

\* process.env values the jobs read while building alerts
FRONTEND_URL == "https://crimsonforge.pro"
API_HEALTH_URL == "https://api.crimsonforge.pro/health"
RAILWAY_PROJECT_ID == "cf-project"
SENTRY_ORG == "crimson-forge"

\* What the outside world can answer ----------------------------------------

\* Messages of the errors fetch() raises: a network failure, an AbortSignal timeout.
FetchErrors == {"fetch failed", "The operation was aborted due to timeout"}

HttpCodes == {200, 503}
Latencies == 1 .. MaxLatency

\* One ping attempt: fetch raises, or a response with a status code arrives.
PingOutcomes ==
    [kind : {"raise"}, err : FetchErrors, lat : Latencies]
        \cup [kind : {"response"}, code : HttpCodes, lat : Latencies]

\* res.ok of a fetch Response
ResOk(code) == code >= 200 /\ code <= 299

\* ------------------------------------------------------------------ uptime

ENDPOINTS == << [name |-> "Frontend", url |-> FRONTEND_URL],
                [name |-> "API", url |-> API_HEALTH_URL] >>

EndpointIds == 1 .. Len(ENDPOINTS)

\* pingEndpoint when fetch returned a response of status `code` at time `end`,
\* the attempt having started at time `start`.
pingEndpoint(url, start, end, code) ==
    [url |-> url,
     status |-> IF ResOk(code) THEN "healthy" ELSE "degraded",
     responseMs |-> Some(end - start),
     statusCode |-> Some(code)]

\* The result checkEndpoint returns once the retry has raised as well.
DownResult(url) ==
    [url |-> url, status |-> "down", responseMs |-> Null, statusCode |-> Null]

\* checkEndpoint entered at time t0, the first attempt ending as o1 and the
\* retry, if there is one, as o2.
checkEndpoint(url, t0, o1, o2) ==
    IF o1.kind = "response"
    THEN pingEndpoint(url, t0, t0 + o1.lat, o1.code)
    ELSE LET t1 == t0 + o1.lat + RETRY_DELAY_MS
         IN  IF o2.kind = "response"
             THEN pingEndpoint(url, t1, t1 + o2.lat, o2.code)
             ELSE DownResult(url)

\* Every result checkEndpoint can return for `url`, over the ways its one or
\* two attempts can end.
CheckResults(url) == {checkEndpoint(url, 0, o1, o2) : o1 \in PingOutcomes, o2 \in PingOutcomes}

\* Every array Promise.all(ENDPOINTS.map(checkEndpoint)) can resolve with.
CheckedEndpoints ==
    {results \in [EndpointIds -> UNION {CheckResults(ENDPOINTS[i].url) : i \in EndpointIds}] :
        \A i \in EndpointIds : results[i] \in CheckResults(ENDPOINTS[i].url)}

\* runUptimeCheck given the results of Promise.all over ENDPOINTS.
\* checkEndpoint catches both attempts, so Promise.all never rejects and the
\* catch branch of runUptimeCheck is not reached.
runUptimeCheck(results) ==
    [tool |-> "uptime", success |-> TRUE, data |-> results]

\* ----------------------------------------------------------------- railway

DeploymentStatuses == {"SUCCESS", "ACTIVE", "FAILED", "CRASHED", "BUILDING"}

\* What the Railway GraphQL call can do: fetch (or res.text()) raises, the
\* response is not OK, its body is not JSON, it carries GraphQL errors, it lists
\* no deployment, or it lists a latest deployment with a status.
RailwayOutcomes ==
    [kind : {"throw"}, message : FetchErrors]
        \cup [kind : {"http_error", "unparseable", "graphql_errors", "no_deployment"}]
        \cup [kind : {"deployment"}, status : DeploymentStatuses]

resolveStatus(deploymentStatus) ==
    IF deploymentStatus = "SUCCESS" \/ deploymentStatus = "ACTIVE" THEN "healthy"
    ELSE IF deploymentStatus = "FAILED" \/ deploymentStatus = "CRASHED" THEN "down"
    ELSE "degraded"

UnknownRailway == [status |-> "unknown", latestDeploymentStatus |-> Null]

\* fetchRailwayStatus: either it raises (threw) or it returns a value.
fetchRailwayStatus(o) ==
    IF o.kind = "throw" THEN [threw |-> TRUE, message |-> o.message]
    ELSE IF o.kind = "http_error" THEN [threw |-> FALSE, value |-> UnknownRailway]
    ELSE IF o.kind = "unparseable" THEN [threw |-> FALSE, value |-> UnknownRailway]
    ELSE IF o.kind = "graphql_errors" THEN [threw |-> FALSE, value |-> UnknownRailway]
    ELSE IF o.kind = "no_deployment" THEN [threw |-> FALSE, value |-> UnknownRailway]
    ELSE [threw |-> FALSE,
          value |-> [status |-> resolveStatus(o.status),
                     latestDeploymentStatus |-> Some(o.status)]]

runRailwayCheck(o) ==
    LET railwayStatus == fetchRailwayStatus(o)
    IN  IF railwayStatus.threw
        THEN [tool |-> "railway", success |-> FALSE,
              data |-> UnknownRailway, error |-> railwayStatus.message]
        ELSE [tool |-> "railway", success |-> TRUE, data |-> railwayStatus.value]

\* ---------------------------------------------------------------- supabase

SilentShopRows(n) == [i \in 1 .. n |-> [shop_id |-> i]]

\* What the Supabase queries can do: the connection probe reports an error, a
\* query raises, or all queries answer and get_silent_shops returns null or rows.
\* The four activity counts are left out: no decision reads them.
SupabaseOutcomes ==
    [kind : {"conn_error"}, message : {"permission denied for table shops"}]
        \cup [kind : {"throw"}, message : FetchErrors]
        \cup [kind : {"ok"},
              silent : {Null} \cup {Some(SilentShopRows(n)) : n \in 0 .. MaxSilentShops}]

runSupabaseCheck(o) ==
    IF o.kind = "conn_error"
    THEN [tool |-> "supabase", success |-> FALSE,
          data |-> [connectionStatus |-> "down", silentShops |-> << >>],
          error |-> "Database connection failed: " \o o.message]
    ELSE IF o.kind = "throw"
    THEN [tool |-> "supabase", success |-> FALSE,
          data |-> [connectionStatus |-> "down", silentShops |-> << >>],
          error |-> o.message]
    ELSE LET silentShopsData == IF o.silent = Null THEN << >> ELSE o.silent[1]
             silentShops == [i \in DOMAIN silentShopsData |->
                                [shopId |-> silentShopsData[i].shop_id]]
         IN  [tool |-> "supabase", success |-> TRUE,
              data |-> [connectionStatus |-> "healthy", silentShops |-> silentShops]]

\* ------------------------------------------------------------------ sentry

IssueList(n) == [i \in 1 .. n |-> [id |-> i]]

\* What one Sentry issues query can do: fetch raises, the response is not OK,
\* its body is not JSON, or it returns a list of issues.
SentryOutcomes(max) ==
    [kind : {"throw", "http_error", "unparseable"}]
        \cup [kind : {"issues"}, issues : {IssueList(n) : n \in 0 .. max}]

\* fetchSentryIssues catches every fault and returns the empty list.
fetchSentryIssues(o) ==
    IF o.kind = "issues" THEN o.issues ELSE << >>

\* runSentryCheck given the outcomes of its two queries (new in the last 24h,
\* all unresolved). fetchSentryIssues never raises, so the catch branch of
\* runSentryCheck is not reached.
runSentryCheck(oNew, oUnresolved) ==
    LET newIssuesData == fetchSentryIssues(oNew)
        unresolvedData == fetchSentryIssues(oUnresolved)
        recentIssues ==
            SubSeq(unresolvedData, 1, Min(RECENT_ISSUES_SHOWN, Len(unresolvedData)))
    IN  [tool |-> "sentry", success |-> TRUE,
         data |-> [newIssueCount |-> Len(newIssuesData),
                   unresolvedCount |-> Len(unresolvedData),
                   recentIssues |-> recentIssues]]

\* ------------------------------------------------------------------- email

\* Whether IMAP_HOST, IMAP_USER and IMAP_PASS are all set.
EmailOutcomes == [configured : BOOLEAN]

UnknownEmail == [status |-> "unknown", unreadCount |-> 0]

runEmailCheck(o) ==
    IF ~o.configured
    THEN [tool |-> "email", success |-> FALSE, data |-> UnknownEmail,
          error |-> "Email configuration not provided. Set IMAP_HOST, IMAP_USER, IMAP_PASS in environment."]
    ELSE [tool |-> "email", success |-> FALSE, data |-> UnknownEmail,
          error |-> "Email check not yet implemented"]

\* ---------------------------------------------------------------- promises

NotCalled == [status |-> "not_called"]
Pending == [status |-> "pending"]
Fulfilled(v) == [status |-> "fulfilled", value |-> v]
Rejected(r) == [status |-> "rejected", reason |-> r]
\* A promise that stays pending for ever: the awaited query never answers.
Hung == [status |-> "hung"]

\* What a monitor's promise can reject with although the monitor's own code
\* catches its faults: an Error with a message, or a value that has none.
Reasons == {[message |-> "monitor crashed"], [thrown |-> "not an Error"]}

IsSettled(p) == p.status = "fulfilled" \/ p.status = "rejected"

\* Promise.all in the place of Promise.allSettled: rejects as soon as one
\* promise has rejected.
PromiseAll_FailFast(ps) ==
    IF \E a \in Adapters : ps[a].status = "rejected"
    THEN Rejected((CHOOSE a \in Adapters : ps[a].status = "rejected"))
    ELSE IF \E a \in Adapters : ~IsSettled(ps[a])
    THEN Pending
    ELSE Fulfilled(ps)

\* Promise.allSettled over the five monitor promises: pending until every one of
\* them has settled, then fulfilled with all five outcomes; it never rejects.
PromiseAllSettled(ps) ==
    IF \E a \in Adapters : ~IsSettled(ps[a])
    THEN Pending
    ELSE Fulfilled(ps)

\* ------------------------------------------- scheduler: morning briefing

\* getResult without the 'Unknown error' fallback: the error is whatever
\* message the reason has, if any.
getResult_NoFallback(result) ==
    IF result.status = "rejected"
    THEN IF "message" \in DOMAIN result.reason
         THEN [success |-> FALSE, error |-> result.reason.message]
         ELSE [success |-> FALSE]
    ELSE result.value

\* getResult: the value of a fulfilled promise, a synthetic failure for a
\* rejected one ((reason as Error)?.message || 'Unknown error').
getResult(result) ==
    IF result.status = "rejected"
    THEN [success |-> FALSE,
          error |-> IF "message" \in DOMAIN result.reason /\ result.reason.message # ""
                    THEN result.reason.message
                    ELSE "Unknown error"]
    ELSE result.value

\* data?.every((e) => e.status === 'healthy') ? 'healthy' : 'degraded'
UptimeVote(uptimeResult) ==
    IF "data" \in DOMAIN uptimeResult
       /\ \A i \in DOMAIN uptimeResult.data : uptimeResult.data[i].status = "healthy"
    THEN "healthy"
    ELSE "degraded"

\* data?.connectionStatus || 'unknown'
SupabaseVote(supabaseResult) ==
    IF "data" \in DOMAIN supabaseResult /\ supabaseResult.data.connectionStatus # ""
    THEN supabaseResult.data.connectionStatus
    ELSE "unknown"

\* data?.status || 'unknown'
RailwayVote(railwayResult) ==
    IF "data" \in DOMAIN railwayResult /\ railwayResult.data.status # ""
    THEN railwayResult.data.status
    ELSE "unknown"

IsKnown(s) == s # "unknown"

Includes(seq, x) == \E i \in DOMAIN seq : seq[i] = x

overallStatus(uptimeResult, supabaseResult, railwayResult) ==
    LET statuses == SelectSeq(<< UptimeVote(uptimeResult),
                                 SupabaseVote(supabaseResult),
                                 RailwayVote(railwayResult) >>, IsKnown)
        hasDown == Includes(statuses, "down")
        hasDegraded == Includes(statuses, "degraded")
    IN  IF hasDown THEN "down" ELSE IF hasDegraded THEN "degraded" ELSE "healthy"

\* `data?.newIssueCount ?? 0 > 0` parses as `data?.newIssueCount ?? (0 > 0)`:
\* the count itself when there is one (truthy unless 0), false otherwise.
SentryAlertCondition(sentryResult) ==
    IF "data" \in DOMAIN sentryResult
    THEN sentryResult.data.newIssueCount # 0
    ELSE FALSE

\* data?.silentShops ?? []
SilentShopsOf(supabaseResult) ==
    IF "data" \in DOMAIN supabaseResult THEN supabaseResult.data.silentShops ELSE << >>

\* Alerts that also report a failed check: a warning for each of the two
\* results that is not a success.
BriefingAlerts_FailureWarns(supabaseResult, sentryResult) ==
    (IF ~ sentryResult.success
     THEN << [severity |-> "warning", tool |-> "sentry", message |-> "Sentry check failed"] >>
     ELSE << >>)
    \o
    (IF ~ supabaseResult.success
     THEN << [severity |-> "warning", tool |-> "supabase", message |-> "Supabase check failed"] >>
     ELSE << >>)

\* The alerts of a briefing, in the order they are pushed.
BriefingAlerts(supabaseResult, sentryResult) ==
    (IF SentryAlertCondition(sentryResult)
     THEN << [severity |-> "warning", tool |-> "sentry",
              message |-> ToString(sentryResult.data.newIssueCount)
                              \o " new error issues detected",
              actionUrl |-> "https://sentry.io/organizations/" \o SENTRY_ORG \o "/issues/"] >>
     ELSE << >>)
    \o
    (IF Len(SilentShopsOf(supabaseResult)) > 0
     THEN << [severity |-> "info", tool |-> "supabase",
              message |-> ToString(Len(SilentShopsOf(supabaseResult)))
                              \o " shops inactive for 3+ days"] >>
     ELSE << >>)

\* A briefing whose overall status also counts Sentry: new issues make a
\* healthy status degraded.
BuildBriefing_SentryVotes(settled) ==
    LET uptimeResult == getResult(settled["uptime"])
        supabaseResult == getResult(settled["supabase"])
        sentryResult == getResult(settled["sentry"])
        railwayResult == getResult(settled["railway"])
        emailResult == getResult(settled["email"])
        status == overallStatus(uptimeResult, supabaseResult, railwayResult)
    IN  [overallStatus |-> IF status = "healthy" /\ SentryAlertCondition(sentryResult)
                           THEN "degraded" ELSE status,
         uptime |-> uptimeResult,
         supabase |-> supabaseResult,
         sentry |-> sentryResult,
         railway |-> railwayResult,
         email |-> emailResult,
         alerts |-> BriefingAlerts(supabaseResult, sentryResult)]

\* A briefing in which one rejected promise discards the results of the others:
\* every slot then holds the failure envelope.
BuildBriefing_DropsOthers(settled) ==
    LET slot(a) == IF \E x \in Adapters : settled[x].status = "rejected"
                   THEN [success |-> FALSE, error |-> "Unknown error"]
                   ELSE getResult(settled[a])
    IN  [overallStatus |-> overallStatus(slot("uptime"), slot("supabase"), slot("railway")),
         uptime |-> slot("uptime"),
         supabase |-> slot("supabase"),
         sentry |-> slot("sentry"),
         railway |-> slot("railway"),
         email |-> slot("email"),
         alerts |-> BriefingAlerts(slot("supabase"), slot("sentry"))]

\* The briefing runMorningBriefing builds from the five settled promises.
BuildBriefing(settled) ==
    LET uptimeResult == getResult(settled["uptime"])
        supabaseResult == getResult(settled["supabase"])
        sentryResult == getResult(settled["sentry"])
        railwayResult == getResult(settled["railway"])
        emailResult == getResult(settled["email"])
    IN  [overallStatus |-> overallStatus(uptimeResult, supabaseResult, railwayResult),
         uptime |-> uptimeResult,
         supabase |-> supabaseResult,
         sentry |-> sentryResult,
         railway |-> railwayResult,
         email |-> emailResult,
         alerts |-> BriefingAlerts(supabaseResult, sentryResult)]

\* --------------------------------------- scheduler: silent health check

\* isUptimeDown with every() in the place of some().
isUptimeDown_Every(uptimeResult) ==
    /\ uptimeResult.success
    /\ \A i \in DOMAIN uptimeResult.data : uptimeResult.data[i].status = "down"

\* uptimeResult.success && Array.isArray(data) && data.some((e) => e.status === 'down')
isUptimeDown(uptimeResult) ==
    /\ uptimeResult.success
    /\ \E i \in DOMAIN uptimeResult.data : uptimeResult.data[i].status = "down"

\* isRailwayDown with the comparison turned round (!== 'healthy' written as
\* === 'healthy').
isRailwayDown_Healthy(railwayResult) ==
    railwayResult.success /\ railwayResult.data.status = "healthy"

\* railwayResult.success && railwayResult.data.status === 'down'
isRailwayDown(railwayResult) ==
    railwayResult.success /\ railwayResult.data.status = "down"

RECURSIVE Join(_, _)
\* Array.prototype.join
Join(strings, sep) ==
    IF Len(strings) = 0 THEN ""
    ELSE IF Len(strings) = 1 THEN strings[1]
    ELSE strings[1] \o sep \o Join(Tail(strings), sep)

IsDownEntry(e) == e.status = "down"

\* The list without the filter: every endpoint's URL, down or not.
downEndpoints_All(uptimeResult) ==
    Join([i \in DOMAIN uptimeResult.data |-> uptimeResult.data[i].url], ", ")

\* data.filter((e) => e.status === 'down').map((e) => e.url).join(', ')
downEndpoints(uptimeResult) ==
    LET down == SelectSeq(uptimeResult.data, IsDownEntry)
    IN  Join([i \in DOMAIN down |-> down[i].url], ", ")

\* The alerts of a silent health check, in the order they are pushed.
QuickAlerts(uptimeResult, railwayResult) ==
    (IF isUptimeDown(uptimeResult)
     THEN << [severity |-> "critical", tool |-> "uptime",
              message |-> "Services are DOWN",
              details |-> downEndpoints(uptimeResult)] >>
     ELSE << >>)
    \o
    (IF isRailwayDown(railwayResult)
     THEN << [severity |-> "critical", tool |-> "railway",
              message |-> "Railway deployment is DOWN",
              actionUrl |-> "https://railway.app/project/" \o RAILWAY_PROJECT_ID] >>
     ELSE << >>)

\* ---------------------------------------------------------------- notifier

\* Emoji are written as their Slack short names.
getStatusEmoji(status) ==
    CASE status = "healthy" -> ":green_circle:"
      [] status = "degraded" -> ":yellow_circle:"
      [] status = "down" -> ":red_circle:"
      [] OTHER -> ":white_circle:"

getItemEmoji(status) ==
    CASE status = "healthy" -> ":check:"
      [] status = "degraded" -> ":warning:"
      [] status = "down" -> ":red_circle:"
      [] OTHER -> ":question:"

\* formatHealthItem; details is nullable
formatHealthItem(name, status, details) ==
    getItemEmoji(status) \o " " \o name
        \o (IF details = Null THEN "" ELSE " - " \o details[1])

toUpperCase(tool) ==
    CASE tool = "uptime" -> "UPTIME"
      [] tool = "railway" -> "RAILWAY"
      [] tool = "sentry" -> "SENTRY"
      [] tool = "supabase" -> "SUPABASE"
      [] OTHER -> "EMAIL"

\* The alert lines at the end of a briefing message.
BriefingAlertLines(alerts) ==
    [i \in DOMAIN alerts |->
        (IF alerts[i].severity = "critical" THEN ":red_circle:" ELSE ":warning:")
            \o " " \o alerts[i].message
            \o (IF "details" \in DOMAIN alerts[i] /\ alerts[i].details # ""
                THEN " - " \o alerts[i].details ELSE "")]

\* The lines of the message sendBriefing posts (the date line and the activity
\* counts are left out).
BriefingText(briefing) ==
    << getStatusEmoji(briefing.overallStatus) \o " CRIMSON FORGE - "
           \o (IF briefing.overallStatus = "healthy"
               THEN "ALL SYSTEMS GO" ELSE "ISSUES DETECTED") >>
    \o (IF briefing.uptime.success /\ "data" \in DOMAIN briefing.uptime
        THEN [i \in DOMAIN briefing.uptime.data |->
                 formatHealthItem(
                     briefing.uptime.data[i].url,
                     briefing.uptime.data[i].status,
                     IF briefing.uptime.data[i].responseMs # Null
                     THEN Some(ToString(briefing.uptime.data[i].responseMs[1]) \o "ms")
                     ELSE Some("No response"))]
        ELSE << formatHealthItem("Uptime Check", "down", Some("Tool failed")) >>)
    \o (IF briefing.railway.success
        THEN << formatHealthItem("Railway API", briefing.railway.data.status,
                                 briefing.railway.data.latestDeploymentStatus) >>
        ELSE << formatHealthItem("Railway API", "down", Some("Tool failed")) >>)
    \o (IF briefing.supabase.success
        THEN << formatHealthItem("Supabase", briefing.supabase.data.connectionStatus, Null) >>
        ELSE << formatHealthItem("Supabase", "down", Some("Tool failed")) >>)
    \o (IF briefing.supabase.success /\ Len(briefing.supabase.data.silentShops) > 0
        THEN << "SHOPS TO WATCH: "
                    \o ToString(Len(briefing.supabase.data.silentShops)) >>
        ELSE << >>)
    \o (IF briefing.email.success
        THEN << ToString(briefing.email.data.unreadCount) \o " unread emails" >>
        ELSE << ":warning: Email check unavailable" >>)
    \o (IF briefing.sentry.success
        THEN IF briefing.sentry.data.newIssueCount = 0
             THEN << ":check: No new Sentry issues" >>
             ELSE << ":warning: " \o ToString(briefing.sentry.data.newIssueCount)
                         \o " new issues since yesterday",
                     ToString(briefing.sentry.data.unresolvedCount)
                         \o " unresolved total" >>
        ELSE << ":warning: Sentry check unavailable" >>)
    \o (IF Len(briefing.alerts) > 0 THEN BriefingAlertLines(briefing.alerts) ELSE << >>)

\* The lines of the message sendAlert posts (the time line is left out).
AlertText(alert) ==
    << (IF alert.severity = "critical" THEN ":red_circle:" ELSE ":warning:")
           \o " ALERT - " \o toUpperCase(alert.tool) \o " ISSUE",
       alert.message >>
    \o (IF "details" \in DOMAIN alert /\ alert.details # ""
        THEN << alert.details >> ELSE << >>)
    \o (IF "actionUrl" \in DOMAIN alert /\ alert.actionUrl # ""
        THEN << "View: " \o alert.actionUrl >> ELSE << >>)

\* What the POST to the Slack webhook can do.
SlackOutcomes == {"ok", "not_ok", "raise"}

\* ------------------------------------------------------- environment check

\* The keys validateEnvironment requires.
required ==
    {"SLACK_WEBHOOK_URL", "FRONTEND_URL", "API_HEALTH_URL", "SUPABASE_URL",
     "SUPABASE_SERVICE_ROLE_KEY", "SENTRY_AUTH_TOKEN", "SENTRY_ORG",
     "SENTRY_PROJECT", "RAILWAY_API_TOKEN", "RAILWAY_PROJECT_ID",
     "RAILWAY_SERVICE_ID"}

\* The keys each monitor and the notifier read as a required value
\* (`process.env.KEY!`). The email monitor reads its keys as optional ones.
RequiredReads ==
    [uptime |-> {"FRONTEND_URL", "API_HEALTH_URL"},
     supabase |-> {"SUPABASE_URL", "SUPABASE_SERVICE_ROLE_KEY"},
     sentry |-> {"SENTRY_ORG", "SENTRY_PROJECT", "SENTRY_AUTH_TOKEN"},
     railway |-> {"RAILWAY_API_TOKEN", "CF_SERVICE_ID"},
     email |-> {},
     notifier |-> {"SLACK_WEBHOOK_URL"}]

\* The keys the environment may set: those validated and those read.
ConfigKeys == required \cup UNION {RequiredReads[r] : r \in DOMAIN RequiredReads}

\* required.filter((key) => !process.env[key]) over the set keys `e`.
Missing(e) == required \ e

\* The check that only warns: the missing keys are printed, the process goes on.
validateEnvironment_WarnOnly(e) == Null

\* validateEnvironment(): Some(1) when it calls process.exit(1), Null when it
\* returns.
validateEnvironment(e) == IF Missing(e) # {} THEN Some(1) ELSE Null

\* ------------------------------------------------------------------- state

VARIABLES
    job,        \* the scheduled job that is running: "none", "quick" or "full"
    pc,         \* where that job stands
    promises,   \* the promise of each monitor call of the running job
    alerts,     \* the local `alerts` array of the running job
    briefing,   \* the briefing the running job built (Null before)
    calls,      \* the notifier calls the running job has made, in order
    posting,    \* the message of the webhook POST in flight (Null if none)
    posts,      \* webhook POSTs the running job has completed
    postResults,\* how each of those POSTs ended, in order
    logged,     \* console lines the running job and the notifier have written
    adapter,    \* the monitor run on its own: "none" or its name
    ep,         \* per endpoint, the progress of checkEndpoint in that run
    query,      \* what the queries of that run answered (Null before)
    ret,        \* the envelope that run returned (Null before)
    processEnv, \* process.env: the configuration keys that are set
    proc,       \* the process: "starting", "running" (cron jobs scheduled) or "exited"
    exitCode,   \* the status process.exit was called with (Null while alive)
    alertedTicks, \* a record kept for SpecQuick: earlier quick runs that sent an alert
    other       \* in SpecOverlap: the locals of a second run in flight (Null if none)

cycleVars == << job, pc, promises, alerts, briefing, calls, posting, posts, postResults,
               logged >>
adapterVars == << adapter, ep, query, ret >>
procVars == << processEnv, proc, exitCode >>
historyVars == << alertedTicks >>
overlapVars == << other >>
vars == << job, pc, promises, alerts, briefing, calls, posting, posts, postResults, logged,
           adapter, ep, query, ret, processEnv, proc, exitCode, alertedTicks, other >>

IdleEndpoint == [pc |-> "idle", clk |-> 0, start |-> 0, attempts |-> << >>, result |-> Null]

\* The process before main() has run: no job has started.
NotStarted ==
    /\ job = "none"
    /\ pc = "idle"
    /\ promises = [a \in Adapters |-> NotCalled]
    /\ alerts = << >>
    /\ briefing = Null
    /\ calls = << >>
    /\ posting = Null
    /\ posts = 0
    /\ postResults = << >>
    /\ logged = {}
    /\ adapter = "none"
    /\ ep = [i \in EndpointIds |-> IdleEndpoint]
    /\ query = Null
    /\ ret = Null
    /\ proc = "starting"
    /\ exitCode = Null
    /\ alertedTicks = 0
    /\ other = Null

Init ==
    /\ NotStarted
    /\ processEnv \in SUBSET required

\* ------------------------------------------------------------------ startup

\* main(): validateEnvironment() either exits the process or returns, and then
\* startScheduler() schedules the two cron jobs.
Main ==
    /\ proc = "starting"
    /\ LET code == validateEnvironment(processEnv)
       IN  IF code # Null
           THEN /\ proc' = "exited"
                /\ exitCode' = code
           ELSE /\ proc' = "running"
                /\ UNCHANGED exitCode
    /\ UNCHANGED processEnv
    /\ UNCHANGED cycleVars
    /\ UNCHANGED adapterVars
    /\ UNCHANGED historyVars
    /\ UNCHANGED overlapVars

\* startScheduler() has run: both cron jobs are scheduled.
Scheduled == proc = "running"

\* --------------------------------------------- monitor calls of a running job

\* monitors.uptime() returns: every endpoint has been checked.
UptimeSettles ==
    /\ promises["uptime"].status = "pending"
    /\ \E results \in CheckedEndpoints :
          promises' = [promises EXCEPT !["uptime"] = Fulfilled(runUptimeCheck(results))]
    /\ UNCHANGED << job, pc, alerts, briefing, calls, posting, posts, postResults, logged >>
    /\ UNCHANGED adapterVars
    /\ UNCHANGED procVars
    /\ UNCHANGED historyVars
    /\ UNCHANGED overlapVars

SupabaseSettles ==
    /\ promises["supabase"].status = "pending"
    /\ \E o \in SupabaseOutcomes :
          promises' = [promises EXCEPT !["supabase"] = Fulfilled(runSupabaseCheck(o))]
    /\ UNCHANGED << job, pc, alerts, briefing, calls, posting, posts, postResults, logged >>
    /\ UNCHANGED adapterVars
    /\ UNCHANGED procVars
    /\ UNCHANGED historyVars
    /\ UNCHANGED overlapVars

SentrySettles ==
    /\ promises["sentry"].status = "pending"
    /\ \E oNew \in SentryOutcomes(MaxNewIssues), oUnresolved \in SentryOutcomes(MaxUnresolved) :
          promises' = [promises EXCEPT !["sentry"] =
                          Fulfilled(runSentryCheck(oNew, oUnresolved))]
    /\ UNCHANGED << job, pc, alerts, briefing, calls, posting, posts, postResults, logged >>
    /\ UNCHANGED adapterVars
    /\ UNCHANGED procVars
    /\ UNCHANGED historyVars
    /\ UNCHANGED overlapVars

RailwaySettles ==
    /\ promises["railway"].status = "pending"
    /\ \E o \in RailwayOutcomes :
          promises' = [promises EXCEPT !["railway"] = Fulfilled(runRailwayCheck(o))]
    /\ UNCHANGED << job, pc, alerts, briefing, calls, posting, posts, postResults, logged >>
    /\ UNCHANGED adapterVars
    /\ UNCHANGED procVars
    /\ UNCHANGED historyVars
    /\ UNCHANGED overlapVars

EmailSettles ==
    /\ promises["email"].status = "pending"
    /\ \E o \in EmailOutcomes :
          promises' = [promises EXCEPT !["email"] = Fulfilled(runEmailCheck(o))]
    /\ UNCHANGED << job, pc, alerts, briefing, calls, posting, posts, postResults, logged >>
    /\ UNCHANGED adapterVars
    /\ UNCHANGED procVars
    /\ UNCHANGED historyVars
    /\ UNCHANGED overlapVars

\* A monitor's promise rejects: a fault outside the monitor's own try/catch.
MonitorRejects ==
    /\ \E a \in Adapters, r \in Reasons :
          /\ promises[a].status = "pending"
          /\ promises' = [promises EXCEPT ![a] = Rejected(r)]
    /\ UNCHANGED << job, pc, alerts, briefing, calls, posting, posts, postResults, logged >>
    /\ UNCHANGED adapterVars
    /\ UNCHANGED procVars
    /\ UNCHANGED historyVars
    /\ UNCHANGED overlapVars

\* A Supabase query never answers: the client's calls carry no timeout, so
\* runSupabaseCheck stays suspended in its `await` and its promise never settles.
SupabaseHangs ==
    /\ promises["supabase"].status = "pending"
    /\ promises' = [promises EXCEPT !["supabase"] = Hung]
    /\ UNCHANGED << job, pc, alerts, briefing, calls, posting, posts, postResults, logged >>
    /\ UNCHANGED adapterVars
    /\ UNCHANGED procVars
    /\ UNCHANGED historyVars
    /\ UNCHANGED overlapVars

\* --------------------------------------------------------- the notifier's POST

\* A notifier that retries: a failed fetch is logged and the POST is made once
\* more.
AfterPost_Retry(o) ==
    /\ posts' = IF o = "ok" THEN posts + 1 ELSE posts + 2
    /\ postResults' = IF o = "ok" THEN Append(postResults, o)
                                  ELSE Append(Append(postResults, o), "ok")
    /\ logged' = IF o = "ok" THEN logged ELSE logged \cup {"Error posting to Slack:"}

\* postToSlack's fetch ends as `o`: a failure is logged and swallowed (by
\* postToSlack itself).
AfterPost(o) ==
    /\ posts' = posts + 1
    /\ postResults' = Append(postResults, o)
    /\ logged' = IF o = "ok" THEN logged ELSE logged \cup {"Error posting to Slack:"}

\* sendAlert(alert): record the call, start the POST of its message.
CallSendAlert(alert) ==
    /\ calls' = Append(calls, [fn |-> "sendAlert", alert |-> alert])
    /\ posting' = Some(AlertText(alert))

\* sendBriefing(b): record the call, start the POST of its message.
CallSendBriefing(b) ==
    /\ calls' = Append(calls, [fn |-> "sendBriefing", briefing |-> b])
    /\ posting' = Some(BriefingText(b))

\* ------------------------------------ runSilentHealthCheck (every 15 minutes)

JobOver == pc = "idle" \/ pc = "done"

\* runSilentHealthCheck is entered with fresh locals and runs up to
\* `await monitors.uptime()`.
EnterQuick ==
    /\ job' = "quick"
    /\ pc' = "q_uptime"
    /\ promises' = [a \in Adapters |-> IF a = "uptime" THEN Pending ELSE NotCalled]
    /\ alerts' = << >>
    /\ briefing' = Null
    /\ calls' = << >>
    /\ posting' = Null
    /\ posts' = 0
    /\ postResults' = << >>
    /\ logged' = {"[SCHEDULER] Running silent health check..."}

\* The timer of the quick job fires with no run in flight.
StartQuick ==
    /\ Scheduled
    /\ JobOver
    /\ EnterQuick
    /\ UNCHANGED adapterVars
    /\ UNCHANGED procVars

\* The cron timer fires.
TickQuick ==
    /\ StartQuick
    /\ UNCHANGED historyVars
    /\ UNCHANGED overlapVars

\* No catch block: the rejection leaves runSilentHealthCheck, whose own promise
\* rejects to the cron scheduler.
QuickCatch_Rethrow ==
    /\ pc' = "rejected"
    /\ UNCHANGED << job, promises, alerts, briefing, calls, posting, posts, postResults, logged >>

\* The catch block of runSilentHealthCheck.
QuickCatch ==
    /\ pc' = "done"
    /\ logged' = logged \cup {"[SCHEDULER] Error in silent health check:"}
    /\ UNCHANGED << job, promises, alerts, briefing, calls, posting, posts, postResults >>

\* `await monitors.uptime()` resumes: on a value, monitors.railway() is called.
QuickAfterUptime ==
    /\ job = "quick"
    /\ pc = "q_uptime"
    /\ IsSettled(promises["uptime"])
    /\ IF promises["uptime"].status = "rejected"
       THEN QuickCatch
       ELSE /\ pc' = "q_railway"
            /\ promises' = [promises EXCEPT !["railway"] = Pending]
            /\ UNCHANGED << job, alerts, briefing, calls, posting, posts, postResults, logged >>
    /\ UNCHANGED adapterVars
    /\ UNCHANGED procVars
    /\ UNCHANGED historyVars
    /\ UNCHANGED overlapVars

\* `await monitors.railway()` resumes: the down checks, the alerts and the first
\* sendAlert call, or the all-clear line.
QuickAfterRailway ==
    /\ job = "quick"
    /\ pc = "q_railway"
    /\ IsSettled(promises["railway"])
    /\ IF promises["railway"].status = "rejected"
       THEN QuickCatch
       ELSE LET uptimeResult == promises["uptime"].value
                railwayResult == promises["railway"].value
            IN  IF isUptimeDown(uptimeResult) \/ isRailwayDown(railwayResult)
                THEN /\ alerts' = QuickAlerts(uptimeResult, railwayResult)
                     /\ CallSendAlert(alerts'[1])
                     /\ pc' = "q_post"
                     /\ UNCHANGED << job, promises, briefing, posts, postResults, logged >>
                ELSE /\ pc' = "done"
                     /\ logged' = logged \cup
                            {"[SCHEDULER] Silent health check passed. No alerts needed."}
                     /\ UNCHANGED << job, promises, alerts, briefing, calls, posting, posts, postResults >>
    /\ UNCHANGED adapterVars
    /\ UNCHANGED procVars
    /\ UNCHANGED historyVars
    /\ UNCHANGED overlapVars

\* `await sendAlert(alert)` resumes once the POST is over: the loop goes on to
\* the next alert, or the job ends.
QuickAlertPosted ==
    /\ job = "quick"
    /\ pc = "q_post"
    /\ \E o \in SlackOutcomes : AfterPost(o)
    /\ IF Len(calls) < Len(alerts)
       THEN /\ CallSendAlert(alerts[Len(calls) + 1])
            /\ UNCHANGED pc
       ELSE /\ posting' = Null
            /\ pc' = "done"
            /\ UNCHANGED calls
    /\ UNCHANGED << job, promises, alerts, briefing >>
    /\ UNCHANGED adapterVars
    /\ UNCHANGED procVars
    /\ UNCHANGED historyVars
    /\ UNCHANGED overlapVars

\* ------------------------------------------- runMorningBriefing (daily)

\* runMorningBriefing is entered with fresh locals, calls all five monitors and
\* runs up to `await Promise.allSettled`.
EnterFull ==
    /\ job' = "full"
    /\ pc' = "f_wait"
    /\ promises' = [a \in Adapters |-> Pending]
    /\ alerts' = << >>
    /\ briefing' = Null
    /\ calls' = << >>
    /\ posting' = Null
    /\ posts' = 0
    /\ postResults' = << >>
    /\ logged' = {"[SCHEDULER] Running morning briefing..."}

\* The monitors called one after the other: only uptime is called before the
\* job waits.
TickFull_OneAtATime ==
    /\ Scheduled
    /\ JobOver
    /\ job' = "full"
    /\ pc' = "f_wait"
    /\ promises' = [a \in Adapters |-> IF a = "uptime" THEN Pending ELSE NotCalled]
    /\ alerts' = << >>
    /\ briefing' = Null
    /\ calls' = << >>
    /\ posting' = Null
    /\ posts' = 0
    /\ postResults' = << >>
    /\ logged' = {"[SCHEDULER] Running morning briefing..."}
    /\ UNCHANGED adapterVars
    /\ UNCHANGED procVars
    /\ UNCHANGED historyVars
    /\ UNCHANGED overlapVars

\* The cron timer fires: all five monitors are called, the job awaits
\* Promise.allSettled.
TickFull ==
    /\ Scheduled
    /\ JobOver
    /\ EnterFull
    /\ UNCHANGED adapterVars
    /\ UNCHANGED procVars
    /\ UNCHANGED historyVars
    /\ UNCHANGED overlapVars

\* `await Promise.allSettled([...])` resumes: results are extracted, the status
\* and the alerts derived, the briefing built and sendBriefing called.
FullAfterAllSettled ==
    /\ job = "full"
    /\ pc = "f_wait"
    /\ LET all == PromiseAllSettled(promises)
       IN  /\ IsSettled(all)
           /\ IF all.status = "rejected"
              THEN /\ pc' = "done"
                   /\ logged' = logged \cup {"[SCHEDULER] Error in morning briefing:"}
                   /\ UNCHANGED << alerts, briefing, calls, posting >>
              ELSE LET b == BuildBriefing(all.value)
                   IN  /\ alerts' = b.alerts
                       /\ briefing' = Some(b)
                       /\ CallSendBriefing(b)
                       /\ pc' = "f_post"
                       /\ UNCHANGED logged
    /\ UNCHANGED << job, promises, posts, postResults >>
    /\ UNCHANGED adapterVars
    /\ UNCHANGED procVars
    /\ UNCHANGED historyVars
    /\ UNCHANGED overlapVars

\* `await sendBriefing(briefing)` resumes once the POST is over: the summary is
\* logged and the job ends.
FullBriefingPosted ==
    /\ job = "full"
    /\ pc = "f_post"
    /\ \E o \in SlackOutcomes :
          /\ posts' = posts + 1
          /\ postResults' = Append(postResults, o)
          /\ logged' = (IF o = "ok" THEN logged ELSE logged \cup {"Error posting to Slack:"})
                          \cup {"[SCHEDULER] Morning briefing sent. Summary:"}
    /\ posting' = Null
    /\ pc' = "done"
    /\ UNCHANGED << job, promises, alerts, briefing, calls >>
    /\ UNCHANGED adapterVars
    /\ UNCHANGED procVars
    /\ UNCHANGED historyVars
    /\ UNCHANGED overlapVars

Next ==
    \/ Main
    \/ TickQuick
    \/ TickFull
    \/ UptimeSettles
    \/ SupabaseSettles
    \/ SentrySettles
    \/ RailwaySettles
    \/ EmailSettles
    \/ MonitorRejects
    \/ SupabaseHangs
    \/ QuickAfterUptime
    \/ QuickAfterRailway
    \/ QuickAlertPosted
    \/ FullAfterAllSettled
    \/ FullBriefingPosted

Spec == Init /\ [][Next]_vars

\* ------------------------------------- the silent health check, tick after tick
\* The quick job alone in a configured environment, with a record of how many
\* earlier runs sent an alert. The program keeps no such record.

\* The cron timer fires; the run that is over is counted if it sent an alert.
TickQuickAgain ==
    /\ StartQuick
    /\ alertedTicks' = IF job = "quick" /\ Len(calls) > 0
                       THEN Min(alertedTicks + 1, MaxAlertedTicks)
                       ELSE alertedTicks
    /\ UNCHANGED overlapVars

InitQuick == Init /\ Missing(processEnv) = {}

NextQuick ==
    \/ Main
    \/ TickQuickAgain
    \/ UptimeSettles
    \/ RailwaySettles
    \/ MonitorRejects
    \/ QuickAfterUptime
    \/ QuickAfterRailway
    \/ QuickAlertPosted

SpecQuick == InitQuick /\ [][NextQuick]_vars

\* The quick job under every environment over the keys validated or read.
InitConfig ==
    /\ NotStarted
    /\ processEnv \in SUBSET ConfigKeys

SpecConfig == InitConfig /\ [][NextQuick]_vars

\* ------------------------------------------------------- two runs in flight
\* No lock keeps a timer from firing while a run is suspended in an `await`.
\* The job variables hold the locals of the run that is executing; `other`
\* holds the locals of a second run that is suspended. The event loop gives
\* control to another run only while the executing one waits for something
\* that has not settled.

\* The locals of the executing run.
Locals ==
    [job |-> job, pc |-> pc, promises |-> promises, alerts |-> alerts,
     briefing |-> briefing, calls |-> calls, posting |-> posting, posts |-> posts,
     postResults |-> postResults, logged |-> logged]

\* The suspended run `r` is given control.
Resume(r) ==
    /\ job' = r.job
    /\ pc' = r.pc
    /\ promises' = r.promises
    /\ alerts' = r.alerts
    /\ briefing' = r.briefing
    /\ calls' = r.calls
    /\ posting' = r.posting
    /\ posts' = r.posts
    /\ postResults' = r.postResults
    /\ logged' = r.logged

\* The executing run is suspended in an `await` on something not yet settled.
Awaiting ==
    \/ pc = "q_uptime" /\ promises["uptime"].status = "pending"
    \/ pc = "q_railway" /\ promises["railway"].status = "pending"
    \/ pc = "f_wait" /\ ~ IsSettled(PromiseAllSettled(promises))
    \/ pc = "q_post"
    \/ pc = "f_post"

\* The quick job's timer fires while a run is in flight.
OverlapTickQuick ==
    /\ Scheduled
    /\ other = Null
    /\ Awaiting
    /\ other' = Some(Locals)
    /\ EnterQuick
    /\ UNCHANGED adapterVars
    /\ UNCHANGED procVars
    /\ UNCHANGED historyVars

\* The full job's timer fires while a quick run is in flight.
OverlapTickFull ==
    /\ Scheduled
    /\ other = Null
    /\ job = "quick"
    /\ Awaiting
    /\ other' = Some(Locals)
    /\ EnterFull
    /\ UNCHANGED adapterVars
    /\ UNCHANGED procVars
    /\ UNCHANGED historyVars

\* An `alerts` array at module level: the two runs share it, so it stays as it
\* is when control passes.
SwitchRun_SharedAlerts ==
    /\ other # Null
    /\ Awaiting
    /\ job' = other[1].job
    /\ pc' = other[1].pc
    /\ promises' = other[1].promises
    /\ briefing' = other[1].briefing
    /\ calls' = other[1].calls
    /\ posting' = other[1].posting
    /\ posts' = other[1].posts
    /\ postResults' = other[1].postResults
    /\ logged' = other[1].logged
    /\ other' = Some(Locals)
    /\ UNCHANGED alerts
    /\ UNCHANGED adapterVars
    /\ UNCHANGED procVars
    /\ UNCHANGED historyVars

\* Control passes from the executing run, suspended, to the other one.
SwitchRun ==
    /\ other # Null
    /\ Awaiting
    /\ Resume(other[1])
    /\ other' = Some(Locals)
    /\ UNCHANGED adapterVars
    /\ UNCHANGED procVars
    /\ UNCHANGED historyVars

\* The executing run has returned: the other one is the only run in flight.
RunEnds ==
    /\ other # Null
    /\ pc = "done"
    /\ Resume(other[1])
    /\ other' = Null
    /\ UNCHANGED adapterVars
    /\ UNCHANGED procVars
    /\ UNCHANGED historyVars

\* The monitor calls of a full run that are still pending settle together:
\* uptime and railway with any of their results, supabase and sentry by
\* rejecting, email with its unconfigured result.
FullMonitorsSettle ==
    /\ job = "full"
    /\ pc = "f_wait"
    /\ \E a \in Adapters : promises[a].status = "pending"
    /\ \E u \in (IF promises["uptime"].status = "pending"
                 THEN {Fulfilled(runUptimeCheck(results)) : results \in CheckedEndpoints}
                 ELSE {promises["uptime"]}),
          w \in (IF promises["railway"].status = "pending"
                 THEN {Fulfilled(runRailwayCheck(o)) : o \in RailwayOutcomes}
                 ELSE {promises["railway"]}) :
          LET reason == CHOOSE r \in Reasons : "message" \in DOMAIN r
              settled == [uptime |-> u,
                          railway |-> w,
                          supabase |-> Rejected(reason),
                          sentry |-> Rejected(reason),
                          email |-> Fulfilled(runEmailCheck([configured |-> FALSE]))]
          IN  promises' = [a \in Adapters |->
                              IF promises[a].status = "pending" THEN settled[a]
                              ELSE promises[a]]
    /\ UNCHANGED << job, pc, alerts, briefing, calls, posting, posts, postResults, logged >>
    /\ UNCHANGED adapterVars
    /\ UNCHANGED procVars
    /\ UNCHANGED historyVars
    /\ UNCHANGED overlapVars

\* A monitor call of a quick run settles on its own.
QuickUptimeSettles == job = "quick" /\ UptimeSettles

QuickRailwaySettles == job = "quick" /\ RailwaySettles

NextOverlap ==
    \/ Main
    \/ TickQuick
    \/ TickFull
    \/ OverlapTickQuick
    \/ OverlapTickFull
    \/ SwitchRun
    \/ RunEnds
    \/ QuickUptimeSettles
    \/ QuickRailwaySettles
    \/ FullMonitorsSettle
    \/ QuickAfterUptime
    \/ QuickAfterRailway
    \/ QuickAlertPosted
    \/ FullAfterAllSettled
    \/ FullBriefingPosted

SpecOverlap == InitQuick /\ [][NextOverlap]_vars

\* ------------------------------------------- one monitor run on its own
\* The same monitors, each run once from start to return, with checkEndpoint
\* followed attempt by attempt. Each endpoint reads its own clock (clk).

\* checkEndpoint is entered: pingEndpoint takes `start` and begins its fetch.
StartCheck(now) ==
    [pc |-> "ping1", clk |-> now, start |-> now, attempts |-> << >>, result |-> Null]

\* No retry: a first fetch that raises makes the endpoint down at once.
AfterFirstPing_NoRetry(e, url, o) ==
    [e EXCEPT !.pc = "done",
              !.clk = e.clk + o.lat,
              !.attempts = Append(e.attempts, o),
              !.result = IF o.kind = "response"
                         THEN Some(pingEndpoint(url, e.start, e.clk + o.lat, o.code))
                         ELSE Some(DownResult(url))]

\* The first fetch ends as `o`: a response is the endpoint's result, a raise
\* starts the 5 s wait.
AfterFirstPing(e, url, o) ==
    IF o.kind = "response"
    THEN [e EXCEPT !.pc = "done",
                   !.clk = e.clk + o.lat,
                   !.attempts = Append(e.attempts, o),
                   !.result = Some(pingEndpoint(url, e.start, e.clk + o.lat, o.code))]
    ELSE [e EXCEPT !.pc = "delay",
                   !.clk = e.clk + o.lat,
                   !.attempts = Append(e.attempts, o)]

\* The retry timed from the first attempt's start: `start` is not taken again.
AfterDelay_KeepsStart(e) ==
    [e EXCEPT !.pc = "ping2",
              !.clk = e.clk + RETRY_DELAY_MS]

\* The 5 s timer fires: pingEndpoint is entered again, takes a new `start` and
\* begins the retry's fetch.
AfterDelay(e) ==
    [e EXCEPT !.pc = "ping2",
              !.clk = e.clk + RETRY_DELAY_MS,
              !.start = e.clk + RETRY_DELAY_MS]

\* The retry's fetch ends as `o`: a response is the endpoint's result, a raise
\* makes it down.
AfterRetry(e, url, o) ==
    [e EXCEPT !.pc = "done",
              !.clk = e.clk + o.lat,
              !.attempts = Append(e.attempts, o),
              !.result = IF o.kind = "response"
                         THEN Some(pingEndpoint(url, e.start, e.clk + o.lat, o.code))
                         ELSE Some(DownResult(url))]

AdapterIdle == adapter = "none"

\* runUptimeCheck is called: checkEndpoint starts for every endpoint.
CallUptime ==
    /\ AdapterIdle
    /\ adapter' = "uptime"
    /\ ep' = [i \in EndpointIds |-> StartCheck(0)]
    /\ UNCHANGED << query, ret >>
    /\ UNCHANGED cycleVars
    /\ UNCHANGED procVars
    /\ UNCHANGED historyVars
    /\ UNCHANGED overlapVars

FirstPingSettles ==
    /\ \E i \in EndpointIds, o \in PingOutcomes :
          /\ ep[i].pc = "ping1"
          /\ ep' = [ep EXCEPT ![i] = AfterFirstPing(ep[i], ENDPOINTS[i].url, o)]
    /\ UNCHANGED << adapter, query, ret >>
    /\ UNCHANGED cycleVars
    /\ UNCHANGED procVars
    /\ UNCHANGED historyVars
    /\ UNCHANGED overlapVars

\* A hedged retry: the second ping is started while the first is in flight.
RetryDelayElapses_Hedged ==
    /\ \E i \in EndpointIds :
          /\ ep[i].pc = "ping1"
          /\ ep' = [ep EXCEPT ![i] = [ep[i] EXCEPT !.pc = "ping2"]]
    /\ UNCHANGED << adapter, query, ret >>
    /\ UNCHANGED cycleVars
    /\ UNCHANGED procVars
    /\ UNCHANGED historyVars
    /\ UNCHANGED overlapVars

RetryDelayElapses ==
    /\ \E i \in EndpointIds :
          /\ ep[i].pc = "delay"
          /\ ep' = [ep EXCEPT ![i] = AfterDelay(ep[i])]
    /\ UNCHANGED << adapter, query, ret >>
    /\ UNCHANGED cycleVars
    /\ UNCHANGED procVars
    /\ UNCHANGED historyVars
    /\ UNCHANGED overlapVars

RetryPingSettles ==
    /\ \E i \in EndpointIds, o \in PingOutcomes :
          /\ ep[i].pc = "ping2"
          /\ ep' = [ep EXCEPT ![i] = AfterRetry(ep[i], ENDPOINTS[i].url, o)]
    /\ UNCHANGED << adapter, query, ret >>
    /\ UNCHANGED cycleVars
    /\ UNCHANGED procVars
    /\ UNCHANGED historyVars
    /\ UNCHANGED overlapVars

\* Promise.all over the endpoints resolves: runUptimeCheck returns.
UptimeReturns ==
    /\ adapter = "uptime"
    /\ ret = Null
    /\ \A i \in EndpointIds : ep[i].pc = "done"
    /\ ret' = Some(runUptimeCheck([i \in EndpointIds |-> ep[i].result[1]]))
    /\ query' = Some([i \in EndpointIds |-> ep[i].attempts])
    /\ UNCHANGED << adapter, ep >>
    /\ UNCHANGED cycleVars
    /\ UNCHANGED procVars
    /\ UNCHANGED historyVars
    /\ UNCHANGED overlapVars

RunSupabase ==
    /\ AdapterIdle
    /\ \E o \in SupabaseOutcomes :
          /\ query' = Some(<< o >>)
          /\ ret' = Some(runSupabaseCheck(o))
    /\ adapter' = "supabase"
    /\ UNCHANGED ep
    /\ UNCHANGED cycleVars
    /\ UNCHANGED procVars
    /\ UNCHANGED historyVars
    /\ UNCHANGED overlapVars

RunSentry ==
    /\ AdapterIdle
    /\ \E oNew \in SentryOutcomes(MaxNewIssues), oUnresolved \in SentryOutcomes(MaxUnresolved) :
          /\ query' = Some(<< oNew, oUnresolved >>)
          /\ ret' = Some(runSentryCheck(oNew, oUnresolved))
    /\ adapter' = "sentry"
    /\ UNCHANGED ep
    /\ UNCHANGED cycleVars
    /\ UNCHANGED procVars
    /\ UNCHANGED historyVars
    /\ UNCHANGED overlapVars

RunRailway ==
    /\ AdapterIdle
    /\ \E o \in RailwayOutcomes :
          /\ query' = Some(<< o >>)
          /\ ret' = Some(runRailwayCheck(o))
    /\ adapter' = "railway"
    /\ UNCHANGED ep
    /\ UNCHANGED cycleVars
    /\ UNCHANGED procVars
    /\ UNCHANGED historyVars
    /\ UNCHANGED overlapVars

RunEmail ==
    /\ AdapterIdle
    /\ \E o \in EmailOutcomes :
          /\ query' = Some(<< o >>)
          /\ ret' = Some(runEmailCheck(o))
    /\ adapter' = "email"
    /\ UNCHANGED ep
    /\ UNCHANGED cycleVars
    /\ UNCHANGED procVars
    /\ UNCHANGED historyVars
    /\ UNCHANGED overlapVars

NextAdapters ==
    \/ CallUptime
    \/ FirstPingSettles
    \/ RetryDelayElapses
    \/ RetryPingSettles
    \/ UptimeReturns
    \/ RunSupabase
    \/ RunSentry
    \/ RunRailway
    \/ RunEmail

\* The monitors are run on their own in a configured environment.
InitAdapters == Init /\ Missing(processEnv) = {}

SpecAdapters == InitAdapters /\ [][NextAdapters]_vars

\* ================================================================== claims

FullDone == job = "full" /\ pc = "done"
QuickDone == job = "quick" /\ pc = "done"

HasData(env) == "data" \in DOMAIN env

SomeEndpoint(env, status) ==
    HasData(env) /\ \E i \in DOMAIN env.data : env.data[i].status = status

\* The alerts of `list` that come from `tool` with severity `severity`.
AlertsOf(list, tool, severity) ==
    {i \in DOMAIN list : list[i].tool = tool /\ list[i].severity = severity}

\* C1: a morning briefing run that has ended has made exactly one sendBriefing
\* call and no other notifier call, with the briefing it built, whatever each of
\* the five monitors returned (success or failure) or rejected with.
C1_BriefingAlwaysSent ==
    FullDone =>
        /\ briefing # Null
        /\ calls = << [fn |-> "sendBriefing", briefing |-> briefing[1]] >>

\* C1 witness: a run has ended in which all five results are failures and the
\* briefing was handed to sendBriefing.
C1_Witness ==
    /\ FullDone
    /\ briefing # Null
    /\ Len(calls) = 1
    /\ \A a \in Adapters : ~briefing[1][a].success

\* What each status-bearing source reports, as C2 reads it.
C2_UptimeReports(env) ==
    IF SomeEndpoint(env, "down") THEN "down"
    ELSE IF SomeEndpoint(env, "degraded") THEN "degraded"
    ELSE "healthy"

C2_Reported(b) ==
    (IF HasData(b.uptime) THEN { C2_UptimeReports(b.uptime) } ELSE {})
        \cup (IF HasData(b.supabase) THEN { b.supabase.data.connectionStatus } ELSE {})
        \cup (IF HasData(b.railway) THEN { b.railway.data.status } ELSE {})

\* C2 (as claimed): the overall status of a briefing is down if uptime has a
\* down endpoint, or the datastore or the deployment reports down; otherwise
\* degraded if any of the three reports degraded; otherwise healthy.
C2_StatusPrecedence ==
    briefing # Null =>
        briefing[1].overallStatus =
            (IF "down" \in C2_Reported(briefing[1]) THEN "down"
             ELSE IF "degraded" \in C2_Reported(briefing[1]) THEN "degraded"
             ELSE "healthy")

\* The endpoints of an uptime result that are down.
DownUrls(env) == { env.data[i].url : i \in { j \in DOMAIN env.data : env.data[j].status = "down" } }

\* The case of C3: uptime returned success with exactly one endpoint down, and
\* railway returned a status that is not down.
C3_Case ==
    /\ promises["uptime"].status = "fulfilled"
    /\ promises["uptime"].value.success
    /\ Cardinality(DownUrls(promises["uptime"].value)) = 1
    /\ promises["railway"].status = "fulfilled"
    /\ promises["railway"].value.data.status # "down"

\* C3: a silent health check in which uptime returned success with exactly one
\* endpoint down, and railway returned a status other than down, ends having
\* made exactly one notifier call: sendAlert with a critical alert whose
\* details are that endpoint's URL.
C3_OneCriticalAlert ==
    (QuickDone /\ C3_Case) =>
        /\ Len(calls) = 1
        /\ posts = 1
        /\ calls[1].fn = "sendAlert"
        /\ calls[1].alert.severity = "critical"
        /\ calls[1].alert.tool = "uptime"
        /\ "details" \in DOMAIN calls[1].alert
        /\ DownUrls(promises["uptime"].value) = { calls[1].alert.details }

\* C3 witness: such a run has ended and the alert names the API endpoint.
C3_Witness ==
    /\ QuickDone
    /\ C3_Case
    /\ Len(calls) = 1
    /\ calls[1].alert.details = API_HEALTH_URL

\* The case of C4: uptime returned success with every endpoint healthy and
\* railway returned the status healthy.
C4_Case ==
    /\ promises["uptime"].status = "fulfilled"
    /\ promises["uptime"].value.success
    /\ \A i \in DOMAIN promises["uptime"].value.data :
          promises["uptime"].value.data[i].status = "healthy"
    /\ promises["railway"].status = "fulfilled"
    /\ promises["railway"].value.data.status = "healthy"

\* C4: in a silent health check in which uptime returned success with every
\* endpoint healthy and railway returned healthy, the notifier is never called
\* and nothing is posted to the webhook.
C4_HealthyIsSilent ==
    (job = "quick" /\ C4_Case) =>
        /\ calls = << >>
        /\ posting = Null
        /\ posts = 0
    /\ postResults = << >>

\* C4 witness: such a run has ended, on the all-clear line.
C4_Witness ==
    /\ QuickDone
    /\ C4_Case
    /\ "[SCHEDULER] Silent health check passed. No alerts needed." \in logged

\* C5 (as claimed): when the uptime result of a briefing is a success with at
\* least one endpoint down, the briefing's alerts hold exactly one critical
\* alert from uptime, and it lists the down endpoints.
C5_UptimeDownAlert ==
    (briefing # Null /\ briefing[1].uptime.success /\ SomeEndpoint(briefing[1].uptime, "down")) =>
        /\ Cardinality(AlertsOf(briefing[1].alerts, "uptime", "critical")) = 1
        /\ \A i \in AlertsOf(briefing[1].alerts, "uptime", "critical") :
              /\ "details" \in DOMAIN briefing[1].alerts[i]
              /\ briefing[1].alerts[i].details = downEndpoints(briefing[1].uptime)

\* C6 (as claimed): when the railway result of a briefing carries the status
\* down, the briefing's alerts hold exactly one critical alert from railway,
\* and it carries a link.
C6_RailwayDownAlert ==
    (briefing # Null /\ HasData(briefing[1].railway)
         /\ briefing[1].railway.data.status = "down") =>
        /\ Cardinality(AlertsOf(briefing[1].alerts, "railway", "critical")) = 1
        /\ \A i \in AlertsOf(briefing[1].alerts, "railway", "critical") :
              "actionUrl" \in DOMAIN briefing[1].alerts[i]

\* The four alert rules of a briefing and whether each one's condition holds.
C7_RuleHolds(b) ==
    [uptime |-> b.uptime.success /\ SomeEndpoint(b.uptime, "down"),
     railway |-> HasData(b.railway) /\ b.railway.data.status = "down",
     sentry |-> b.sentry.success /\ HasData(b.sentry) /\ b.sentry.data.newIssueCount > 0,
     supabase |-> b.supabase.success /\ HasData(b.supabase)
                     /\ Len(b.supabase.data.silentShops) > 0]

C7_Severity == [uptime |-> "critical", railway |-> "critical",
                sentry |-> "warning", supabase |-> "info"]

\* C7 (as claimed): a briefing's alerts hold exactly one alert for each of the
\* four rules whose condition holds (uptime endpoint down: critical; railway
\* down: critical; new Sentry issues: warning; silent shops: info) and nothing
\* else.
C7_RulesIndependent ==
    briefing # Null =>
        /\ \A t \in DOMAIN C7_Severity :
              Cardinality(AlertsOf(briefing[1].alerts, t, C7_Severity[t])) =
                  (IF C7_RuleHolds(briefing[1])[t] THEN 1 ELSE 0)
        /\ Len(briefing[1].alerts) =
              Cardinality({t \in DOMAIN C7_Severity : C7_RuleHolds(briefing[1])[t]})

\* Whether one answer of the outside world is a fault of the query.
C8_IsFault(o) ==
    IF "kind" \in DOMAIN o
    THEN o.kind \in {"raise", "throw", "http_error", "unparseable", "conn_error"}
            \/ (o.kind = "response" /\ ~ResOk(o.code))
    ELSE ~o.configured

\* Whether a query of the monitor that has returned faulted.
C8_QueryFaulted ==
    IF adapter = "uptime"
    THEN \E i \in EndpointIds : \E k \in DOMAIN query[1][i] : C8_IsFault(query[1][i][k])
    ELSE \E k \in DOMAIN query[1] : C8_IsFault(query[1][k])

\* C8 (as claimed): when a query of a monitor faulted (raise, timeout, non-OK
\* response, unparseable body, missing configuration), the envelope the
\* monitor returns has success = false and a non-empty error.
C8_FaultGivesFailure ==
    (ret # Null /\ C8_QueryFaulted) =>
        /\ ~ret[1].success
        /\ "error" \in DOMAIN ret[1]
        /\ ret[1].error # ""

\* The envelopes the running job's decisions read.
C9_DecisionEnvelopes ==
    (IF briefing # Null
     THEN { briefing[1][a] : a \in Adapters }
     ELSE {})
    \cup (IF job = "quick" /\ pc \in {"q_railway", "q_post", "done"}
             /\ promises["uptime"].status = "fulfilled"
          THEN { promises["uptime"].value }
          ELSE {})
    \cup (IF job = "quick" /\ pc \in {"q_post", "done"}
             /\ promises["railway"].status = "fulfilled"
          THEN { promises["railway"].value }
          ELSE {})

\* C9: every envelope a job's decisions read, returned by a monitor or made by
\* getResult for a rejected promise, has an error exactly when its success is
\* false, and an error that is set is not empty.
C9_ErrorIffFailed ==
    \A env \in C9_DecisionEnvelopes :
        /\ ("error" \in DOMAIN env) <=> ~env.success
        /\ "error" \in DOMAIN env => env.error # ""

\* C9 witness: a briefing holds an envelope made by getResult for a promise
\* rejected with a value that has no message, next to a successful one.
C9_Witness ==
    /\ briefing # Null
    /\ promises["railway"].status = "rejected"
    /\ "message" \notin DOMAIN promises["railway"].reason
    /\ briefing[1].railway.error = "Unknown error"
    /\ briefing[1].uptime.success

\* Endpoint i was retried and the retry got a response.
C10_RetrySucceeded(i) ==
    /\ Len(ep[i].attempts) = 2
    /\ ep[i].attempts[1].kind = "raise"
    /\ ep[i].attempts[2].kind = "response"

\* C10: when runUptimeCheck has returned and the first ping of an endpoint
\* raised while the retry got a response, the envelope is a success without an
\* error and the endpoint's entry is made of the retry alone: status by the
\* retry's response, its status code, and the retry's own duration.
C10_RetryResultIsSecondAttempt ==
    (adapter = "uptime" /\ ret # Null) =>
        \A i \in EndpointIds :
            C10_RetrySucceeded(i) =>
                /\ ret[1].success
                /\ "error" \notin DOMAIN ret[1]
                /\ ret[1].data[i] =
                      [url |-> ENDPOINTS[i].url,
                       status |-> IF ResOk(ep[i].attempts[2].code)
                                  THEN "healthy" ELSE "degraded",
                       responseMs |-> Some(ep[i].attempts[2].lat),
                       statusCode |-> Some(ep[i].attempts[2].code)]

\* C10 witness: runUptimeCheck has returned after the API endpoint's first ping
\* raised and its retry got a 200.
C10_Witness ==
    /\ adapter = "uptime"
    /\ ret # Null
    /\ C10_RetrySucceeded(2)
    /\ ep[2].attempts[2].code = 200
    /\ ret[1].data[2].status = "healthy"

\* ---- C11

\* The running job has resumed from an `await` with a rejected monitor promise.
C11_ResumedWithRejection ==
    \/ job = "quick" /\ promises["uptime"].status = "rejected" /\ pc # "q_uptime"
    \/ job = "quick" /\ promises["railway"].status = "rejected" /\ pc # "q_railway"
    \/ job = "full" /\ pc # "f_wait" /\ \E a \in Adapters : promises[a].status = "rejected"

\* A webhook POST of the running job has failed.
C11_PostFailed == \E i \in DOMAIN postResults : postResults[i] # "ok"

\* C11: neither job ever rejects to the scheduler. A quick run that met a
\* rejected monitor promise is over with the error line logged; a full run that
\* met one goes on to its briefing and logs it; a failed POST is logged by the
\* notifier and the run goes on; and once a run is over, failed or not, the next
\* tick of either job can start.
C11_RunsNeverReject ==
    /\ pc \in {"idle", "q_uptime", "q_railway", "q_post", "f_wait", "f_post", "done"}
    /\ (C11_ResumedWithRejection /\ job = "quick")
          => /\ pc = "done"
             /\ "[SCHEDULER] Error in silent health check:" \in logged
    /\ (C11_ResumedWithRejection /\ job = "full")
          => /\ pc \in {"f_post", "done"}
             /\ briefing # Null
             /\ pc = "done" => "[SCHEDULER] Morning briefing sent. Summary:" \in logged
    /\ C11_PostFailed
          => /\ "Error posting to Slack:" \in logged
             /\ pc \in {"q_post", "done"}
    /\ (job # "none" /\ pc = "done") => (ENABLED TickQuick /\ ENABLED TickFull)

\* A quick run has ended in its catch block, after which a tick can fire.
C11_Witness ==
    /\ QuickDone
    /\ promises["railway"].status = "rejected"
    /\ "[SCHEDULER] Error in silent health check:" \in logged
    /\ ENABLED TickFull

\* ---- C12

\* The scheduler's catch blocks have not run.
C12_NothingCaught ==
    /\ "[SCHEDULER] Error in silent health check:" \notin logged
    /\ "[SCHEDULER] Error in morning briefing:" \notin logged

\* C12: sendAlert and sendBriefing never raise. Every notifier call makes one
\* POST and no more, whatever its outcome; a failed POST is logged; it never
\* takes the job into its catch block; and the job goes on: a quick run still
\* sends every alert of its list, a full run still logs its summary.
C12_NotifierNeverRaises ==
    /\ posts + (IF posting # Null THEN 1 ELSE 0) = Len(calls)
    /\ Len(postResults) = posts
    /\ C11_PostFailed => "Error posting to Slack:" \in logged
    /\ (\A a \in Adapters : promises[a].status # "rejected") => C12_NothingCaught
    /\ (QuickDone /\ C12_NothingCaught) => (Len(calls) = Len(alerts) /\ posts = Len(alerts))
    /\ (FullDone /\ C12_NothingCaught)
          => (posts = 1 /\ "[SCHEDULER] Morning briefing sent. Summary:" \in logged)

\* A quick run sent two alerts although the POST of the first one failed.
C12_Witness ==
    /\ QuickDone
    /\ Len(alerts) = 2
    /\ posts = 2
    /\ postResults[1] # "ok"
    /\ "Error posting to Slack:" \in logged

\* ---- C13

\* The running job has called sendAlert with a critical alert from `tool`.
C13_CriticalAlertSent(tool) ==
    \E i \in DOMAIN calls :
        /\ calls[i].fn = "sendAlert"
        /\ calls[i].alert.tool = tool
        /\ calls[i].alert.severity = "critical"

\* C13 (as claimed): in an ended quick run, a down endpoint in the uptime result
\* has its critical alert sent whatever became of the railway call (returned or
\* rejected), and a down deployment has its critical alert sent whatever became
\* of the uptime call.
C13_FaultDoesNotSuppress ==
    QuickDone =>
        /\ (/\ promises["uptime"].status = "fulfilled"
            /\ promises["uptime"].value.success
            /\ SomeEndpoint(promises["uptime"].value, "down"))
              => C13_CriticalAlertSent("uptime")
        /\ (/\ promises["railway"].status = "fulfilled"
            /\ HasData(promises["railway"].value)
            /\ promises["railway"].value.data.status = "down")
              => C13_CriticalAlertSent("railway")

\* ---- C14

\* One of the required keys is not set.
C14_KeyMissing == \E k \in required : k \notin processEnv

\* C14: with a required key missing the process exits with a non-zero status
\* and the scheduler is never started: no job is ever scheduled or run. With
\* every key set, main starts the scheduler and the process does not exit.
C14_MissingKeyExits ==
    /\ C14_KeyMissing
          => /\ proc \in {"starting", "exited"}
             /\ job = "none"
             /\ ~ ENABLED TickQuick
             /\ ~ ENABLED TickFull
    /\ (C14_KeyMissing /\ proc # "starting")
          => (proc = "exited" /\ exitCode # Null /\ exitCode[1] # 0)
    /\ (~ C14_KeyMissing /\ proc # "starting")
          => (proc = "running" /\ exitCode = Null)
    /\ job # "none" => proc = "running"

\* The process has exited with status 1 because the webhook URL alone was
\* missing.
C14_Witness ==
    /\ processEnv = required \ {"SLACK_WEBHOOK_URL"}
    /\ proc = "exited"
    /\ exitCode = Some(1)

\* ---- C15

\* The monitors whose promise rejected in the running job.
C15_RejectedSlots == {a \in Adapters : promises[a].status = "rejected"}

\* C15: in a full run, the slot of a monitor whose promise rejected holds a
\* failure envelope (success false, a non-empty error, no data), every other
\* slot holds exactly the envelope its monitor returned, and the run goes on to
\* send that briefing.
C15_RejectedSlotIsolated ==
    /\ briefing # Null =>
          \A a \in Adapters :
              IF a \in C15_RejectedSlots
              THEN /\ ~ briefing[1][a].success
                   /\ "error" \in DOMAIN briefing[1][a]
                   /\ briefing[1][a].error # ""
                   /\ ~ HasData(briefing[1][a])
              ELSE /\ promises[a].status = "fulfilled"
                   /\ briefing[1][a] = promises[a].value
    /\ (job = "full" /\ pc # "f_wait" /\ C15_RejectedSlots # {})
          => /\ briefing # Null
             /\ calls = << [fn |-> "sendBriefing", briefing |-> briefing[1]] >>

\* A full run ended with the sentry promise rejected and the four others
\* fulfilled, its briefing sent.
C15_Witness ==
    /\ FullDone
    /\ C15_RejectedSlots = {"sentry"}
    /\ briefing # Null
    /\ briefing[1].uptime.success
    /\ posts = 1

\* ---- C16

\* A step inside a full run (the run is not over, so the step is not a tick).
C16_InFullRun == job = "full" /\ pc # "done"

\* C16: a full run has called all five monitors by the time it waits; it has
\* built its briefing (status and alerts) only with all five promises settled;
\* and while it runs, a settled promise keeps its outcome, a step that changes
\* one promise leaves the four others as they are (nothing in flight is
\* cancelled), and the briefing holds the value of every fulfilled promise.
C16_WaitForAll ==
    /\ []((job = "full" /\ pc = "f_wait")
             => \A a \in Adapters : promises[a].status # "not_called")
    /\ []((job = "full" /\ pc # "f_wait")
             => \A a \in Adapters : IsSettled(promises[a]))
    /\ [][C16_InFullRun =>
             /\ \A a \in Adapters : IsSettled(promises[a]) => promises'[a] = promises[a]
             /\ \A a \in Adapters :
                   promises'[a] # promises[a]
                       => \A b \in Adapters \ {a} : promises'[b] = promises[b]
             /\ briefing' # briefing
                   => \A a \in Adapters :
                          promises[a].status = "fulfilled"
                              => briefing'[1][a] = promises[a].value]_vars

\* A full run is waiting with the sentry promise rejected, the email result a
\* failure, and the uptime call still in flight.
C16_Witness ==
    /\ job = "full"
    /\ pc = "f_wait"
    /\ promises["sentry"].status = "rejected"
    /\ promises["email"].status = "fulfilled"
    /\ ~ promises["email"].value.success
    /\ promises["uptime"].status = "pending"
    /\ promises["railway"].status = "fulfilled"

\* ---- C17

\* A full run waits with the Supabase call hung and the four others settled.
C17_OneHungOthersSettled ==
    /\ job = "full"
    /\ pc = "f_wait"
    /\ promises["supabase"] = Hung
    /\ \A a \in Adapters \ {"supabase"} : IsSettled(promises[a])

\* C17 (as claimed): a full run in which one monitor call hangs still goes on to
\* deliver: once the four other calls have settled, the run can leave its wait
\* and build and send the briefing.
C17_HungRunDelivers == C17_OneHungOthersSettled => ENABLED FullAfterAllSettled

\* ---- C18

\* C18 (as claimed): in a quick run the railway check is started without
\* waiting for the uptime check: while the uptime call (its pings, its retry
\* delay) is still in flight, the railway call has been made.
C18_StartedTogether ==
    (job = "quick" /\ promises["uptime"].status = "pending")
        => promises["railway"].status # "not_called"

\* ---- C19

\* The check of monitor `a` returned without determining a status.
C19_Undetermined(a) ==
    /\ promises[a].status = "fulfilled"
    /\ ~ promises[a].value.success

\* C19 (as claimed): a quick run in which the uptime or the railway monitor
\* returned success=false does not take the all-clear branch.
C19_UndeterminedNotAllClear ==
    (QuickDone /\ (C19_Undetermined("uptime") \/ C19_Undetermined("railway")))
        => "[SCHEDULER] Silent health check passed. No alerts needed." \notin logged

\* ---- C20

\* Source `s` of the briefing reports healthy.
C20_ReportsHealthy(s) ==
    /\ briefing[1][s].success
    /\ HasData(briefing[1][s])
    /\ CASE s = "uptime" -> \A i \in DOMAIN briefing[1][s].data :
                                briefing[1][s].data[i].status = "healthy"
         [] s = "supabase" -> briefing[1][s].data.connectionStatus = "healthy"
         [] s = "railway" -> briefing[1][s].data.status = "healthy"

C20_Sources == {"uptime", "supabase", "railway"}

\* C20 (as claimed): when one of the three status-bearing sources of a briefing
\* is a failure envelope (success=false) and the two others report healthy, the
\* overall status is not down.
C20_FailureIsNotDown ==
    briefing # Null =>
        \A s \in C20_Sources :
            (/\ ~ briefing[1][s].success
             /\ \A t \in C20_Sources \ {s} : C20_ReportsHealthy(t))
                => briefing[1].overallStatus # "down"

\* ---- C21

\* The case of C21: uptime returned success with a down endpoint and railway
\* returned the status down.
C21_BothDown ==
    /\ promises["uptime"].status = "fulfilled"
    /\ promises["uptime"].value.success
    /\ SomeEndpoint(promises["uptime"].value, "down")
    /\ promises["railway"].status = "fulfilled"
    /\ HasData(promises["railway"].value)
    /\ promises["railway"].value.data.status = "down"

\* The text that lists the down endpoints of `env` and no other, in the order
\* of ENDPOINTS.
C21_DownList(env) ==
    IF DownUrls(env) = {FRONTEND_URL} THEN FRONTEND_URL
    ELSE IF DownUrls(env) = {API_HEALTH_URL} THEN API_HEALTH_URL
    ELSE FRONTEND_URL \o ", " \o API_HEALTH_URL

\* C21: a silent health check that found a down endpoint and the deployment
\* down ends having made exactly two sendAlert calls, each with its own POST:
\* first the critical uptime alert, whose details list every down endpoint and
\* no other, then the critical railway alert.
C21_TwoAlertsInOrder ==
    (QuickDone /\ C21_BothDown) =>
        /\ Len(calls) = 2
        /\ posts = 2
        /\ \A i \in 1..2 : calls[i].fn = "sendAlert" /\ calls[i].alert.severity = "critical"
        /\ calls[1].alert.tool = "uptime"
        /\ calls[2].alert.tool = "railway"
        /\ calls[1].alert.details = C21_DownList(promises["uptime"].value)

\* Such a run has ended with only the frontend down: its first alert names the
\* frontend alone.
C21_Witness ==
    /\ QuickDone
    /\ C21_BothDown
    /\ DownUrls(promises["uptime"].value) = {FRONTEND_URL}
    /\ Len(calls) = 2
    /\ calls[1].alert.details = FRONTEND_URL

\* ---- C22

\* Both ping attempts of endpoint i raised.
C22_BothRaised(i) ==
    /\ Len(ep[i].attempts) = 2
    /\ ep[i].attempts[1].kind = "raise"
    /\ ep[i].attempts[2].kind = "raise"

\* C22: in a run of the uptime monitor every endpoint is pinged at most twice;
\* there is a second attempt only after a first one that raised, and always
\* after one; and the endpoint is classified down exactly when both attempts
\* raised, a timeout being a raise like any other.
C22_AtMostTwoAttempts ==
    \A i \in EndpointIds :
        /\ Len(ep[i].attempts) <= 2
        /\ Len(ep[i].attempts) = 2 => ep[i].attempts[1].kind = "raise"
        /\ ep[i].pc = "done" =>
              /\ Len(ep[i].attempts) >= 1
              /\ ep[i].attempts[1].kind = "raise" => Len(ep[i].attempts) = 2
              /\ (ep[i].result[1].status = "down") <=> C22_BothRaised(i)
        /\ ret # Null /\ adapter = "uptime" =>
              ((ret[1].data[i].status = "down") <=> C22_BothRaised(i))

\* runUptimeCheck has returned: the frontend timed out and then failed to
\* connect and is down, the API answered its first ping.
C22_Witness ==
    /\ adapter = "uptime"
    /\ ret # Null
    /\ C22_BothRaised(1)
    /\ ep[1].attempts[1].err = "The operation was aborted due to timeout"
    /\ ep[1].attempts[2].err = "fetch failed"
    /\ ret[1].data[1].status = "down"
    /\ Len(ep[2].attempts) = 1
    /\ ret[1].data[2].status # "down"

\* ---- C23

\* The first ping of endpoint i is over and it raised.
C23_FirstPingFailed(i) ==
    /\ Len(ep[i].attempts) = 1
    /\ ep[i].attempts[1].kind = "raise"

\* C23: while an endpoint waits for its retry or has its retry in flight, its
\* first ping is over and raised, so the two attempts are never in flight
\* together; the retry is started from the wait alone, 5 s after the first ping
\* ended (checkEndpoint was entered at time 0).
C23_RetryAfterDelay ==
    /\ [](\A i \in EndpointIds :
             ep[i].pc \in {"delay", "ping2"} => C23_FirstPingFailed(i))
    /\ [](\A i \in EndpointIds :
             ep[i].pc = "ping2" =>
                 /\ ep[i].start = ep[i].attempts[1].lat + RETRY_DELAY_MS
                 /\ ep[i].clk = ep[i].start)
    /\ [][\A i \in EndpointIds :
             (ep'[i].pc = "ping2" /\ ep[i].pc # "ping2") =>
                 /\ ep[i].pc = "delay"
                 /\ ep'[i].clk = ep[i].clk + RETRY_DELAY_MS]_vars

\* The frontend's retry is in flight while the API's first ping is in flight.
C23_Witness ==
    /\ adapter = "uptime"
    /\ ep[1].pc = "ping2"
    /\ C23_FirstPingFailed(1)
    /\ ep[2].pc = "ping1"

\* ---- C24

\* The slots of the briefing that hold a failure envelope.
C24_FailedSlots == {a \in Adapters : ~ briefing[1][a].success}

\* C24: a failure envelope in a briefing, returned by its monitor or made from
\* a rejection, has no alert of its own in the briefing's list; with all five
\* slots failed the list is empty.
C24_FailureAddsNoAlert ==
    briefing # Null =>
        /\ \A a \in C24_FailedSlots :
               \A i \in DOMAIN briefing[1].alerts : briefing[1].alerts[i].tool # a
        /\ C24_FailedSlots = Adapters => briefing[1].alerts = << >>

\* A briefing with all five slots failed, the Supabase one returned by the
\* monitor itself and the Sentry one made from a rejection.
C24_Witness ==
    /\ briefing # Null
    /\ C24_FailedSlots = Adapters
    /\ promises["supabase"].status = "fulfilled"
    /\ promises["sentry"].status = "rejected"
    /\ briefing[1].alerts = << >>

\* ---- C25

\* The four monitors that can succeed returned success with nothing to report:
\* every endpoint healthy, datastore and deployment healthy, no new issue, no
\* silent shop.
C25_NothingToReport ==
    /\ \A a \in Adapters \ {"email"} : briefing[1][a].success /\ HasData(briefing[1][a])
    /\ \A i \in DOMAIN briefing[1].uptime.data : briefing[1].uptime.data[i].status = "healthy"
    /\ briefing[1].supabase.data.connectionStatus = "healthy"
    /\ briefing[1].railway.data.status = "healthy"
    /\ briefing[1].sentry.data.newIssueCount = 0
    /\ briefing[1].supabase.data.silentShops = << >>

\* C25 (as claimed): a briefing whose five envelopes are all successes with
\* nothing to report has an empty alert list.
C25_AllHealthyNoAlerts ==
    (briefing # Null /\ briefing[1].email.success /\ C25_NothingToReport)
        => briefing[1].alerts = << >>

\* C25, the case the monitors can produce: the email envelope is never a
\* success, so no briefing has five successes.
C25_EmailNeverSucceeds == briefing # Null => ~ briefing[1].email.success

\* C25, the nearest case: four successes with nothing to report, the email
\* envelope a failure, and an empty alert list.
C25_NearestCase ==
    /\ briefing # Null
    /\ C25_NothingToReport
    /\ briefing[1].alerts = << >>

\* ---- C26

\* Every way the sentry promise of a full run can settle.
C26_SentrySettled ==
    {Fulfilled(runSentryCheck(oNew, oUnresolved)) :
        oNew \in SentryOutcomes(MaxNewIssues), oUnresolved \in SentryOutcomes(MaxUnresolved)}
    \cup {Rejected(r) : r \in Reasons}

\* Every way the email promise of a full run can settle.
C26_EmailSettled ==
    {Fulfilled(runEmailCheck(o)) : o \in EmailOutcomes} \cup {Rejected(r) : r \in Reasons}

\* C26: the overall status of the briefing a full run has just built is the one
\* of every other full run whose uptime, supabase and railway promises settled
\* the same way, however its sentry and email promises settled.
C26_StatusIgnoresSentryAndEmail ==
    (job = "full" /\ pc = "f_post") =>
        \A s \in C26_SentrySettled, e \in C26_EmailSettled :
            BuildBriefing([promises EXCEPT !["sentry"] = s, !["email"] = e]).overallStatus
                = briefing[1].overallStatus

\* A healthy briefing of a run whose Sentry check found new issues: a run
\* without them has the same status.
C26_Witness ==
    /\ briefing # Null
    /\ briefing[1].overallStatus = "healthy"
    /\ briefing[1].sentry.success
    /\ briefing[1].sentry.data.newIssueCount > 0
    /\ \E s \in C26_SentrySettled :
          /\ s.status = "rejected"
          /\ BuildBriefing([promises EXCEPT !["sentry"] = s]).overallStatus = "healthy"

\* ---- C27

\* C27 (as claimed): in every quick run, whatever the number of earlier runs
\* that already alerted, a down endpoint in the uptime result has its critical
\* alert sent again, naming the endpoints that are down now, and a down
\* deployment has its critical alert sent again.
C27_EveryTickAlertsAgain ==
    QuickDone =>
        /\ (/\ promises["uptime"].status = "fulfilled"
            /\ promises["uptime"].value.success
            /\ SomeEndpoint(promises["uptime"].value, "down"))
              => \E i \in DOMAIN calls :
                     /\ calls[i].fn = "sendAlert"
                     /\ calls[i].alert.tool = "uptime"
                     /\ calls[i].alert.severity = "critical"
                     /\ calls[i].alert.details = C21_DownList(promises["uptime"].value)
        /\ (/\ promises["railway"].status = "fulfilled"
            /\ HasData(promises["railway"].value)
            /\ promises["railway"].value.data.status = "down")
              => \E i \in DOMAIN calls :
                     /\ calls[i].fn = "sendAlert"
                     /\ calls[i].alert.tool = "railway"
                     /\ calls[i].alert.severity = "critical"

\* C27, with both monitors returning: after the largest number of alerting
\* runs the record counts, a run with a down endpoint alerts once more.
C27_AlertedAgain ==
    /\ alertedTicks = MaxAlertedTicks
    /\ QuickDone
    /\ promises["railway"].status = "fulfilled"
    /\ SomeEndpoint(promises["uptime"].value, "down")
    /\ Len(calls) > 0
    /\ calls[1].alert.tool = "uptime"

\* C27, with both monitors returning: the alerts of a run are those of its own
\* results, whatever the record of earlier runs.
C27_NoSuppressionWhenBothReturn ==
    (QuickDone /\ promises["uptime"].status = "fulfilled"
               /\ promises["railway"].status = "fulfilled")
        => C27_EveryTickAlertsAgain

\* ---- C28

\* C28 (as claimed): a briefing is healthy only if the uptime result is a
\* success with every endpoint healthy, the datastore's connection status is
\* healthy and the deployment's status is healthy; a status-bearing check that
\* failed or reported unknown never leaves the briefing healthy.
C28_HealthyOnlyIfAllHealthy ==
    (briefing # Null /\ briefing[1].overallStatus = "healthy") =>
        /\ briefing[1].uptime.success
        /\ HasData(briefing[1].uptime)
        /\ \A i \in DOMAIN briefing[1].uptime.data :
               briefing[1].uptime.data[i].status = "healthy"
        /\ HasData(briefing[1].supabase)
        /\ briefing[1].supabase.data.connectionStatus = "healthy"
        /\ HasData(briefing[1].railway)
        /\ briefing[1].railway.data.status = "healthy"


\* The sendAlert calls a quick run makes for its first `n` alerts.
C29_AlertCalls(as, n) == [i \in 1..n |-> [fn |-> "sendAlert", alert |-> as[i]]]

\* The notifier calls of the run with locals `r` are those its own monitor
\* results call for: none before the results are in or when one of them was a
\* rejection, then for a quick run one sendAlert per alert of QuickAlerts, in
\* order, each once, and for a full run the one sendBriefing of the briefing
\* built from its own five results.
C29_OwnCalls(r) ==
    CASE r.pc \in {"idle", "q_uptime", "q_railway", "f_wait"} -> r.calls = << >>
      [] r.pc = "q_post" ->
            LET own == QuickAlerts(r.promises["uptime"].value, r.promises["railway"].value)
            IN  /\ r.alerts = own
                /\ Len(r.calls) \in 1..Len(own)
                /\ r.calls = C29_AlertCalls(own, Len(r.calls))
                /\ r.posts = Len(r.calls) - 1
      [] r.pc = "f_post" ->
            /\ r.calls = << [fn |-> "sendBriefing",
                             briefing |-> BuildBriefing(PromiseAllSettled(r.promises).value)] >>
            /\ r.posts = 0
      [] r.pc = "done" /\ r.job = "quick" ->
            IF \E a \in {"uptime", "railway"} : r.promises[a].status # "fulfilled"
            THEN r.calls = << >>
            ELSE LET own == QuickAlerts(r.promises["uptime"].value,
                                        r.promises["railway"].value)
                 IN  /\ r.calls = C29_AlertCalls(own, Len(own))
                     /\ r.posts = Len(own)
      [] r.pc = "done" /\ r.job = "full" ->
            IF PromiseAllSettled(r.promises).status # "fulfilled"
            THEN r.calls = << >>
            ELSE /\ r.calls = << [fn |-> "sendBriefing",
                                  briefing |-> BuildBriefing(PromiseAllSettled(r.promises).value)] >>
                 /\ r.posts = 1
      [] OTHER -> FALSE

\* C29: when two runs are in flight together, whatever the order in which the
\* event loop resumes them, the notifier calls of each run are determined by
\* the monitor results that run obtained itself: no alert or briefing of one
\* run is altered, dropped or duplicated by the other.
C29_RunsDoNotInterfere ==
    /\ C29_OwnCalls(Locals)
    /\ other # Null => C29_OwnCalls(other[1])

\* A full run suspended in the POST of its briefing while a quick run that
\* started before it is sending its second alert.
C29_Witness ==
    /\ other # Null
    /\ other[1].job = "full"
    /\ other[1].pc = "f_post"
    /\ Len(other[1].calls) = 1
    /\ job = "quick"
    /\ pc = "q_post"
    /\ Len(calls) = 2

\* Two quick runs in flight, each with alerts of its own to send.
C29_SameCycleOverlap ==
    /\ other # Null
    /\ other[1].job = "quick"
    /\ other[1].pc = "q_post"
    /\ job = "quick"
    /\ pc = "q_post"
    /\ alerts # other[1].alerts


\* A monitor that has been called, or the notifier once it has been called,
\* is a reader of its keys.
C30_Readers ==
    {a \in Adapters : promises[a].status # "not_called"}
        \cup (IF calls # << >> THEN {"notifier"} ELSE {})

\* C30: once validateEnvironment has passed, every key a called monitor or the
\* notifier reads as a required value is set in the environment.
C30_RequiredValuesDefined ==
    proc = "running" => \A r \in C30_Readers : RequiredReads[r] \subseteq processEnv

\* The railway monitor has been called after a validation that passed with
\* CF_SERVICE_ID unset.
C30_RailwayUnconfigured ==
    /\ proc = "running"
    /\ promises["railway"].status # "not_called"
    /\ "CF_SERVICE_ID" \notin processEnv

\* With CF_SERVICE_ID set besides the validated keys nothing is read undefined.
C30_FullyConfigured ==
    /\ proc = "running"
    /\ promises["railway"].status = "fulfilled"
    /\ calls # << >>
    /\ ConfigKeys \subseteq processEnv

====
